---- MODULE Spec2Model ----
(***************************************************************************)
(* Model of the Retell AI webhook processor (RetellWebhookProcessor and    *)
(* the functions it calls): signature verification, event filter, call     *)
(* classification, field validation, notification dispatch and the         *)
(* aggregation of the channel outcomes.  One behaviour is one invocation   *)
(* of the handler.  The handler is a JavaScript async function: its        *)
(* synchronous stretches run to completion, and the continuations of the   *)
(* channel tasks run only while the handler is suspended in its join.      *)
(***************************************************************************)
EXTENDS Integers, Sequences, FiniteSets, TLC

(***************************************************************************)
(* JavaScript values and strings.  A string is a sequence of one-character *)
(* strings; a value carries its type tag.                                  *)
(***************************************************************************)
Undef == [t |-> "undef"]
Str(s) == [t |-> "str", v |-> s]
Bool(b) == [t |-> "bool", v |-> b]

WhiteSpace == {" ", "\t", "\n"}

UpperToLower == ("N" :> "n") @@ ("O" :> "o") @@ ("T" :> "t") @@ ("P" :> "p") @@
                ("R" :> "r") @@ ("V" :> "v") @@ ("I" :> "i") @@ ("D" :> "d") @@
                ("E" :> "e") @@ ("J" :> "j") @@ ("A" :> "a") @@ ("B" :> "b")

LowerChar(c) == IF c \in DOMAIN UpperToLower THEN UpperToLower[c] ELSE c

\* String.prototype.toLowerCase
ToLowerCase(s) == [i \in DOMAIN s |-> LowerChar(s[i])]

RECURSIVE TrimStart(_)
TrimStart(s) == IF s # <<>> /\ Head(s) \in WhiteSpace THEN TrimStart(Tail(s)) ELSE s

RECURSIVE TrimEnd(_)
TrimEnd(s) == IF s # <<>> /\ s[Len(s)] \in WhiteSpace
              THEN TrimEnd(SubSeq(s, 1, Len(s) - 1)) ELSE s

\* String.prototype.trim
Trim(s) == TrimEnd(TrimStart(s))

\* JavaScript truthiness of a value (the operand of ! and of || and &&)
Truthy(v) == CASE v.t = "undef" -> FALSE
               [] v.t = "str" -> v.v # <<>>
               [] v.t = "bool" -> v.v

\* String(value) for the values that reach it (a truthy string or true)
ToStr(v) == IF v.t = "str" THEN v.v ELSE <<"t", "r", "u", "e">>

\* the literal 'not provided' the validators compare with
NotProvided == <<"n", "o", "t", " ", "p", "r", "o", "v", "i", "d", "e", "d">>

(***************************************************************************)
(* The texts the requests of the model carry.                              *)
(***************************************************************************)
TxtBlank == <<" ", " ">>
TxtPlaceholder == <<" ", "N", "o", "t", " ", "P", "r", "o", "v", "i", "d", "e", "d">>
TxtJane == <<"J", "a", "n", "e">>
TxtAcme == <<"A", "c", "m", "e">>
TxtPhone == <<"5", "5", "5">>
TxtMail == <<"b", "@", "x">>
TxtBreach == <<"r", "a", "n", "s", "o", "m">>
TxtQuestion == <<"a", "d", "d", "r", "e", "s", "s">>

(***************************************************************************)
(* The call object.  The analysis fields arrive in the flat "analysis"     *)
(* object, in the nested "call_analysis.custom_analysis_data" object, in   *)
(* both or in neither.                                                     *)
(***************************************************************************)
NoObject == [t |-> "undef"]
Obj(a) == [t |-> "obj", v |-> a]

EmptyAnalysis == [is_security_incident |-> Undef,
                  IR_call_description |-> Undef,
                  non_IR_inquiry_reason |-> Undef,
                  non_IR_call_description |-> Undef,
                  caller_name |-> Undef,
                  company_name |-> Undef,
                  caller_phone_number |-> Undef,
                  caller_email_address |-> Undef]

\* const analysis = payload.analysis || payload.call_analysis?.custom_analysis_data || {}
AnalysisOf(payload) ==
    IF payload.analysis.t = "obj" THEN payload.analysis.v
    ELSE IF payload.custom_analysis_data.t = "obj" THEN payload.custom_analysis_data.v
    ELSE EmptyAnalysis

\* value?.trim() followed by the test (x && x.length > 0)
HasTextUntrimmed(v) == v.t = "str" /\ Len(v.v) > 0
HasText(v) == v.t = "str" /\ Len(Trim(v.v)) > 0

isIrCallTextOnly(payload) == HasText(AnalysisOf(payload).IR_call_description)
isIrCall(payload) ==
    LET analysis == AnalysisOf(payload)
        isSecurityIncident == analysis.is_security_incident = Bool(TRUE)
    IN  HasText(analysis.IR_call_description) \/ isSecurityIncident

isNonIrCall(payload) ==
    LET analysis == AnalysisOf(payload)
        isSecurityIncident == analysis.is_security_incident = Bool(TRUE)
    IN  IF isSecurityIncident THEN FALSE
        ELSE HasText(analysis.non_IR_inquiry_reason)
             \/ HasText(analysis.non_IR_call_description)

\* !v || String(v).trim() === '' || String(v).trim().toLowerCase() === 'not provided'
IsMissingCaseSensitive(v) ==
    \/ ~Truthy(v)
    \/ Trim(ToStr(v)) = <<>>
    \/ Trim(ToStr(v)) = NotProvided
IsMissing(v) ==
    \/ ~Truthy(v)
    \/ Trim(ToStr(v)) = <<>>
    \/ ToLowerCase(Trim(ToStr(v))) = NotProvided

\* missingFields.push(f) when cond holds
PushIf(cond, f) == IF cond THEN <<f>> ELSE <<>>

validateIrCallDataNestedFirst(payload) ==
    LET analysis == IF payload.custom_analysis_data.t = "obj"
                    THEN payload.custom_analysis_data.v
                    ELSE AnalysisOf(payload)
        missingFields ==
            PushIf(analysis.is_security_incident # Bool(TRUE), "confirmed security incident")
            \o PushIf(IsMissing(analysis.caller_name), "caller first and last name")
            \o PushIf(IsMissing(analysis.company_name), "company name")
            \o PushIf(IsMissing(analysis.caller_phone_number), "phone number")
    IN  [valid |-> Len(missingFields) = 0, missingFields |-> missingFields]
validateIrCallData(payload) ==
    LET analysis == AnalysisOf(payload)
        missingFields ==
            PushIf(analysis.is_security_incident # Bool(TRUE), "confirmed security incident")
            \o PushIf(IsMissing(analysis.caller_name), "caller first and last name")
            \o PushIf(IsMissing(analysis.company_name), "company name")
            \o PushIf(IsMissing(analysis.caller_phone_number), "phone number")
    IN  [valid |-> Len(missingFields) = 0, missingFields |-> missingFields]

validateNonIrCallDataWithCompany(payload) ==
    LET analysis == AnalysisOf(payload)
        hasPhone == ~IsMissing(analysis.caller_phone_number)
        hasEmail == ~IsMissing(analysis.caller_email_address)
        missingFields ==
            PushIf(analysis.is_security_incident = Bool(TRUE), "call must not be a security incident")
            \o PushIf(IsMissing(analysis.caller_name), "caller name")
            \o PushIf(IsMissing(analysis.company_name), "company name")
            \o PushIf(~hasPhone /\ ~hasEmail, "contact information")
    IN  [valid |-> Len(missingFields) = 0, missingFields |-> missingFields]
validateNonIrCallData(payload) ==
    LET analysis == AnalysisOf(payload)
        hasPhone == ~IsMissing(analysis.caller_phone_number)
        hasEmail == ~IsMissing(analysis.caller_email_address)
        missingFields ==
            PushIf(analysis.is_security_incident = Bool(TRUE), "call must not be a security incident")
            \o PushIf(IsMissing(analysis.caller_name), "caller name")
            \o PushIf(~hasPhone /\ ~hasEmail, "contact information")
    IN  [valid |-> Len(missingFields) = 0, missingFields |-> missingFields]

(***************************************************************************)
(* The requests, payloads and environments one invocation can meet.        *)
(***************************************************************************)
FlagValues == {Undef, Bool(TRUE), Bool(FALSE)}
IrDescriptionValues == {Undef, Str(TxtBlank), Str(TxtBreach)}
InquiryValues == {Undef, Str(TxtQuestion)}
NameValues == {Undef, Str(TxtPlaceholder), Str(TxtJane)}
CompanyValues == {Undef, Str(TxtAcme)}
PhoneValues == {Undef, Str(TxtPhone)}
MailValues == {Undef, Str(TxtMail)}

Analyses == [is_security_incident : FlagValues,
             IR_call_description : IrDescriptionValues,
             non_IR_inquiry_reason : InquiryValues,
             non_IR_call_description : InquiryValues,
             caller_name : NameValues,
             company_name : CompanyValues,
             caller_phone_number : PhoneValues,
             caller_email_address : MailValues]

Payloads ==
    {[analysis |-> Obj(a), custom_analysis_data |-> NoObject] : a \in Analyses}
    \cup {[analysis |-> NoObject, custom_analysis_data |-> Obj(a)] : a \in Analyses}
    \cup {[analysis |-> NoObject, custom_analysis_data |-> NoObject]}

Events == {"call_started", "call_ended", "call_analyzed", "undefined"}

Channels == {"jira", "email", "teams", "sms"}
TaskKinds == {"jira", "email", "teams", "sms", "nonIrEmail"}
Providers == {"sendgrid", "azure"}

\* process.env as loadConfiguration reads it: the four flags, the provider, and
\* the channels whose required variables are all set (only those of enabled
\* channels are read); clientOk tells whether the Azure connection string is
\* one the EmailClient constructor accepts (read by the Azure provider only)
Environments ==
    {env \in [enableEmail : BOOLEAN, enableTeams : BOOLEAN, enableSms : BOOLEAN,
              enableJira : BOOLEAN, emailProvider : Providers,
              complete : SUBSET Channels, clientOk : BOOLEAN] :
        /\ env.emailProvider = "sendgrid" => env.clientOk
        /\ \A c \in env.complete :
              \/ c = "email" /\ env.enableEmail
              \/ c = "teams" /\ env.enableTeams
              \/ c = "sms" /\ env.enableSms
              \/ c = "jira" /\ env.enableJira}

\* IRT_EMAIL_ADDRESS, and the default of JIRA_FAILURE_NOTIFICATION_RECIPIENTS
\* (line 226); a setting is a sequence of addresses and "," separators
IrtEmailAddress == <<"IRT@procircular.com">>
FailureNotificationRecipients == <<"csirt@procircular.com", ",", "jsherlock@procircular.com">>

NoConfig == [loaded |-> FALSE, emailProvider |-> "sendgrid", clientOk |-> TRUE,
             toEmail |-> <<>>, failureNotificationRecipients |-> <<>>,
             complete |-> {},
             featureFlags |-> [enableEmail |-> FALSE, enableTeams |-> FALSE,
                               enableSms |-> FALSE, enableJira |-> FALSE]]

EnabledChannels(env) ==
    {c \in Channels : \/ c = "email" /\ env.enableEmail
                      \/ c = "teams" /\ env.enableTeams
                      \/ c = "sms" /\ env.enableSms
                      \/ c = "jira" /\ env.enableJira}

\* the variables loadConfiguration requires and does not find
MissingEnvVarsOfJira(env) == (EnabledChannels(env) \cap {"jira"}) \ env.complete
MissingEnvVars(env) == EnabledChannels(env) \ env.complete

\* the ServiceConfig loadConfiguration returns when it does not throw
loadConfiguration(env) ==
    [loaded |-> TRUE, emailProvider |-> env.emailProvider, clientOk |-> env.clientOk,
     toEmail |-> IrtEmailAddress,
     failureNotificationRecipients |-> FailureNotificationRecipients,
     complete |-> env.complete,
     featureFlags |-> [enableEmail |-> env.enableEmail, enableTeams |-> env.enableTeams,
                       enableSms |-> env.enableSms, enableJira |-> env.enableJira]]

(***************************************************************************)
(* State of one invocation of RetellWebhookProcessor.                      *)
(***************************************************************************)
VARIABLES
    pc,                   \* position of the handler
    secretSet,            \* process.env.RETELL_API_KEY is a non-empty string
    signature,            \* the x-retell-signature header: "unread", "absent", "present"
    invoked,              \* the steps of the handler that have run so far
    verifyResult,         \* what Retell.verify returned: "none", "true", "false"
    eventType,            \* webhookPayload.event once the body is parsed
    payload,              \* webhookPayload.call once it is extracted
    config,               \* the ServiceConfig once it is loaded
    isIr, isNonIr,        \* the results of isIrCall and isNonIrCall
    notificationTasks,    \* the task kinds pushed, in the order of the pushes
    task,                 \* position of each task: "none", a pending position, "fulfilled", "rejected"
    skippedSend,          \* the tasks that returned early without sending
    emailNotificationSent,\* the local flag of createJiraTicketViaApi
    alertAttempts,        \* calls of sendJiraFailureNotificationEmail
    adapterCalls,         \* calls made to each external provider
    response,             \* the HttpResponseInit returned
    callType,             \* the local callType of the handler
    validation,           \* the ValidationResults computed for the event
    alertTo,              \* the recipients of the ticket-failure alert
    alertOutcomes,        \* how the attempts of the ticket-failure alert ended
    jiraError,            \* the error of the ticket task: as raised, as rejected with
    revalidation          \* the ValidationResult each task computed for itself

vars == <<pc, secretSet, signature, invoked, verifyResult, eventType, payload, config,
          isIr, isNonIr, notificationTasks, task, skippedSend, emailNotificationSent,
          alertAttempts, adapterCalls, response,
          callType, validation, alertTo, alertOutcomes, jiraError, revalidation>>

\* the locals of the dispatch and of the ticket task
dispatchLocals == <<callType, validation, revalidation>>
ticketLocals == <<alertTo, alertOutcomes, jiraError>>

Adapters == {"jiraApi", "irEmail", "nonIrEmail", "teamsWebhook", "twilioSms", "alertEmail"}

NoPayload == [analysis |-> NoObject, custom_analysis_data |-> NoObject]
NoAttempts == [jira |-> FALSE, email |-> FALSE, teams |-> FALSE, sms |-> FALSE]
NoResults == [total |-> 0, successful |-> 0, failed |-> 0]

\* no validator has run yet
NotValidated == [valid |-> FALSE, missingFields |-> <<"not validated">>]
NoValidation == [ir |-> NotValidated, nonIr |-> NotValidated]
NoJiraError == [original |-> "none", rejectedWith |-> "none"]

\* an HttpResponseInit: the status and the members of jsonBody
Response(status, success, message, missingFields, attempted, results) ==
    [status |-> status, success |-> success, message |-> message,
     missingFields |-> missingFields, notifications_attempted |-> attempted,
     notification_results |-> results]

NoResponse == Response(0, FALSE, "none", <<>>, NoAttempts, NoResults)

\* the responses that carry a status and a message only
Plain(status, success, message) ==
    Response(status, success, message, <<>>, NoAttempts, NoResults)

Init ==
    /\ pc = "start"
    /\ secretSet = FALSE
    /\ signature = "unread"
    /\ invoked = {}
    /\ verifyResult = "none"
    /\ eventType = "unparsed"
    /\ payload = NoPayload
    /\ config = NoConfig
    /\ isIr = FALSE
    /\ isNonIr = FALSE
    /\ notificationTasks = <<>>
    /\ task = [k \in TaskKinds |-> "none"]
    /\ skippedSend = {}
    /\ emailNotificationSent = FALSE
    /\ alertAttempts = 0
    /\ adapterCalls = [a \in Adapters |-> 0]
    /\ response = NoResponse
    /\ callType = "unknown"
    /\ validation = NoValidation
    /\ alertTo = <<>>
    /\ alertOutcomes = {}
    /\ jiraError = NoJiraError
    /\ revalidation = [k \in TaskKinds |-> NotValidated]

(***************************************************************************)
(* Request-level results.                                                  *)
(***************************************************************************)
\* return { status: 500, jsonBody: { success: false, error: "Server configuration error." } }
ServerConfigurationError == Plain(500, FALSE, "Server configuration error.")
\* return { status: 400, jsonBody: { success: false, error: "Missing x-retell-signature header." } }
MissingSignature == Plain(400, FALSE, "Missing x-retell-signature header.")
\* return { status: 401, jsonBody: { success: false, error: "Invalid signature." } }
InvalidSignature == Plain(401, FALSE, "Invalid signature.")
\* the catch block of the handler: status 500 with the message of the error
UnexpectedErrorAsSuccess == Plain(200, TRUE, "error.message")
UnexpectedError == Plain(500, FALSE, "error.message")
\* Event type ... acknowledged but not processed
Acknowledged == Plain(200, TRUE, "acknowledged but not processed")

\* the two 'processing skipped - missing required data' results
Skipped(message, missingFields) ==
    Response(200, FALSE, message, missingFields, NoAttempts, NoResults)

\* the handler returns: the response is fixed and nothing else changes
Return(r) ==
    /\ pc' = "done"
    /\ response' = r

(***************************************************************************)
(* Signature verification, lines 1774-1814.                                *)
(***************************************************************************)
\* the handler reads RETELL_API_KEY and the signature header
Receive ==
    /\ pc = "start"
    /\ \E s \in BOOLEAN, h \in {"absent", "present"} :
          /\ secretSet' = s
          /\ signature' = h
    /\ pc' = "checkSecret"
    /\ UNCHANGED <<invoked, verifyResult, eventType, payload, config, isIr, isNonIr,
                   notificationTasks, task, skippedSend, emailNotificationSent,
                   alertAttempts, adapterCalls, response>>
    /\ UNCHANGED <<dispatchLocals, ticketLocals>>

\* if (!retellApiKey) return 500
SecretGateOpen(secret) == TRUE
SecretGate(secret) == secret

CheckSecret ==
    /\ pc = "checkSecret"
    /\ IF SecretGate(secretSet)
       THEN pc' = "checkSignature" /\ UNCHANGED response
       ELSE Return(ServerConfigurationError)
    /\ UNCHANGED <<secretSet, signature, invoked, verifyResult, eventType, payload, config,
                   isIr, isNonIr, notificationTasks, task, skippedSend,
                   emailNotificationSent, alertAttempts, adapterCalls>>
    /\ UNCHANGED <<dispatchLocals, ticketLocals>>

\* if (!signature) return 400
HeaderGateOpen(header) == TRUE
HeaderGate(header) == header = "present"

CheckSignature ==
    /\ pc = "checkSignature"
    /\ IF HeaderGate(signature)
       THEN pc' = "readBody" /\ UNCHANGED response
       ELSE Return(MissingSignature)
    /\ UNCHANGED <<secretSet, signature, invoked, verifyResult, eventType, payload, config,
                   isIr, isNonIr, notificationTasks, task, skippedSend,
                   emailNotificationSent, alertAttempts, adapterCalls>>
    /\ UNCHANGED <<dispatchLocals, ticketLocals>>

\* const rawBody = await request.text()
ReadBody ==
    /\ pc = "readBody"
    /\ invoked' = invoked \cup {"request.text"}
    /\ pc' = "verify"
    /\ UNCHANGED <<secretSet, signature, verifyResult, eventType, payload, config,
                   isIr, isNonIr, notificationTasks, task, skippedSend,
                   emailNotificationSent, alertAttempts, adapterCalls, response>>
    /\ UNCHANGED <<dispatchLocals, ticketLocals>>

\* if (!Retell.verify(rawBody, retellApiKey, signature)) return 401
VerifyGateOpen(ok) == TRUE
VerifyGate(ok) == ok

Verify ==
    /\ pc = "verify"
    /\ \E ok \in BOOLEAN :
          /\ verifyResult' = IF ok THEN "true" ELSE "false"
          /\ IF VerifyGate(ok)
             THEN pc' = "parse" /\ UNCHANGED response
             ELSE Return(InvalidSignature)
    /\ invoked' = invoked \cup {"Retell.verify"}
    /\ UNCHANGED <<secretSet, signature, eventType, payload, config,
                   isIr, isNonIr, notificationTasks, task, skippedSend,
                   emailNotificationSent, alertAttempts, adapterCalls>>
    /\ UNCHANGED <<dispatchLocals, ticketLocals>>

\* webhookPayload = JSON.parse(rawBody): the text is not JSON (throws), is the
\* JSON value null, or is an object whose event member is read next
ParseBody ==
    /\ pc = "parse"
    /\ invoked' = invoked \cup {"JSON.parse"}
    /\ \E outcome \in {"throws", "null"} \cup Events :
          IF outcome = "throws"
          THEN Return(UnexpectedError) /\ UNCHANGED eventType
          ELSE eventType' = outcome /\ pc' = "filter" /\ UNCHANGED response
    /\ UNCHANGED <<secretSet, signature, verifyResult, payload, config,
                   isIr, isNonIr, notificationTasks, task, skippedSend,
                   emailNotificationSent, alertAttempts, adapterCalls>>
    /\ UNCHANGED <<dispatchLocals, ticketLocals>>

(***************************************************************************)
(* Event filter, lines 1820-1831.                                          *)
(***************************************************************************)
EventGateOpen(e) == TRUE
EventGate(e) == e = "call_analyzed"

FilterEvent ==
    /\ pc = "filter"
    /\ invoked' = invoked \cup {"eventFilter"}
    /\ IF eventType = "null"
       THEN Return(UnexpectedError)   \* webhookPayload.event on null throws
       ELSE IF EventGate(eventType)
       THEN pc' = "extract" /\ UNCHANGED response
       ELSE Return(Acknowledged)
    /\ UNCHANGED <<secretSet, signature, verifyResult, eventType, payload, config,
                   isIr, isNonIr, notificationTasks, task, skippedSend,
                   emailNotificationSent, alertAttempts, adapterCalls>>
    /\ UNCHANGED <<dispatchLocals, ticketLocals>>

\* const payload = webhookPayload.call; payload.call_id throws when there is no call
ExtractCallFrom(calls) ==
    /\ pc = "extract"
    /\ invoked' = invoked \cup {"webhookPayload.call"}
    /\ \/ Return(UnexpectedError) /\ UNCHANGED payload
       \/ \E c \in calls :
             /\ payload' = c
             /\ pc' = "loadConfig"
             /\ UNCHANGED response
    /\ UNCHANGED <<secretSet, signature, verifyResult, eventType, config,
                   isIr, isNonIr, notificationTasks, task, skippedSend,
                   emailNotificationSent, alertAttempts, adapterCalls>>
    /\ UNCHANGED <<dispatchLocals, ticketLocals>>

ExtractCall == ExtractCallFrom(Payloads)

\* const config = loadConfiguration(), which throws when a variable is missing
LoadConfig ==
    /\ pc = "loadConfig"
    /\ invoked' = invoked \cup {"loadConfiguration"}
    /\ \E env \in Environments :
          IF MissingEnvVars(env) # {}
          THEN Return(UnexpectedError) /\ UNCHANGED config
          ELSE config' = loadConfiguration(env) /\ pc' = "classify" /\ UNCHANGED response
    /\ UNCHANGED <<secretSet, signature, verifyResult, eventType, payload,
                   isIr, isNonIr, notificationTasks, task, skippedSend,
                   emailNotificationSent, alertAttempts, adapterCalls>>
    /\ UNCHANGED <<dispatchLocals, ticketLocals>>

\* const isIr = isIrCall(payload); const isNonIr = isNonIrCall(payload)
Classify ==
    /\ pc = "classify"
    /\ invoked' = invoked \cup {"isIrCall", "isNonIrCall"}
    /\ isIr' = isIrCall(payload)
    /\ isNonIr' = isNonIrCall(payload)
    /\ pc' = "branch"
    /\ UNCHANGED <<secretSet, signature, verifyResult, eventType, payload, config,
                   notificationTasks, task, skippedSend,
                   emailNotificationSent, alertAttempts, adapterCalls, response>>
    /\ UNCHANGED <<dispatchLocals, ticketLocals>>

(***************************************************************************)
(* Channel tasks.  Calling an async function runs it up to its first       *)
(* await: the task returns early, throws, or has made its provider call    *)
(* and waits for it.  Started(st, call, skip) is that outcome: the         *)
(* position of the task, the provider called (or "none"), and whether the  *)
(* task returned early without sending.                                    *)
(***************************************************************************)
Started(st, call, skip) == [st |-> st, call |-> call, skip |-> skip]

Settled == {"fulfilled", "rejected"}

\* const validation = validateIrCallData(payload) at the head of
\* createJiraTicketViaApi, sendEmailViaAzure and sendEmailViaSendGrid, and
\* validateNonIrCallData(payload) at the head of sendNonIrEmail; the chat and
\* SMS tasks validate nothing
RevalidatedByNonIrRules(kind, p) ==
    CASE kind \in {"jira", "email", "nonIrEmail"} -> validateNonIrCallData(p)
      [] OTHER -> NotValidated
Revalidated(kind, p) ==
    CASE kind \in {"jira", "email"} -> validateIrCallData(p)
      [] kind = "nonIrEmail" -> validateNonIrCallData(p)
      [] OTHER -> NotValidated

\* createJiraTicketViaApi up to 'await fetch(endpoint, ...)', lines 1310-1371
StartJira(p, cfg) ==
    IF ~Revalidated("jira", p).valid
    THEN Started("fulfilled", "none", TRUE)
    ELSE Started("fetch", "jiraApi", FALSE)

\* sendEmail -> sendEmailViaAzure up to 'await emailClient.beginSend(message)',
\* or sendEmailViaSendGrid up to 'await sgMail.send(msg)'
StartEmail(p, cfg) ==
    IF ~Revalidated("email", p).valid
    THEN Started("fulfilled", "none", TRUE)
    ELSE IF cfg.emailProvider = "azure"
    THEN IF cfg.clientOk THEN Started("beginSend", "irEmail", FALSE)
                         ELSE Started("rejected", "none", FALSE)
    ELSE Started("send", "irEmail", FALSE)

\* sendTeamsMessage up to 'await fetch(config.teams.webhookUrl, ...)':
\* const { analysis } = payload; analysis.company_name throws on undefined
StartTeams(p, cfg) ==
    IF p.analysis.t # "obj"
    THEN Started("rejected", "none", FALSE)
    ELSE Started("post", "teamsWebhook", FALSE)

\* sendSms up to 'await client.messages.create(...)'
StartSms(p, cfg) ==
    IF p.analysis.t # "obj"
    THEN Started("rejected", "none", FALSE)
    ELSE Started("create", "twilioSms", FALSE)

\* sendNonIrEmail up to its first await, lines 1674-1759
StartNonIrEmail(p, cfg) ==
    IF ~Revalidated("nonIrEmail", p).valid
    THEN Started("fulfilled", "none", TRUE)
    ELSE IF cfg.emailProvider = "azure"
    THEN IF cfg.clientOk THEN Started("beginSend", "nonIrEmail", FALSE)
                         ELSE Started("rejected", "none", FALSE)
    ELSE Started("send", "nonIrEmail", FALSE)

\* a task whose function is pushed without being called
StartDeferred(kind, p, cfg) == Started("created", "none", FALSE)

Start(kind, p, cfg) ==
    CASE kind = "jira" -> StartJira(p, cfg)
      [] kind = "email" -> StartEmail(p, cfg)
      [] kind = "teams" -> StartTeams(p, cfg)
      [] kind = "sms" -> StartSms(p, cfg)
      [] kind = "nonIrEmail" -> StartNonIrEmail(p, cfg)

\* if (flag) notificationTasks.push(...)
PushTask(flag, kind) == IF flag THEN <<kind>> ELSE <<>>

\* the tasks of the IR workflow, in the order of the pushes, lines 1910-1938
\* (and again lines 1978-1996 for an unclassified call)
IrTasksNoSms(ff) ==
    PushTask(ff.enableJira, "jira") \o PushTask(ff.enableEmail, "email")
    \o PushTask(ff.enableTeams, "teams")
IrTasks(ff) ==
    PushTask(ff.enableJira, "jira") \o PushTask(ff.enableEmail, "email")
    \o PushTask(ff.enableTeams, "teams") \o PushTask(ff.enableSms, "sms")

\* the tasks of the non-IR workflow, lines 1965-1970
NonIrTasksAsIr(ff) == IrTasks(ff) \o <<"nonIrEmail">>
NonIrTasks(ff) == <<"nonIrEmail">>

Range(seq) == {seq[i] : i \in DOMAIN seq}

\* the pushes of one branch: every task function is called when it is pushed
Build(kinds) ==
    LET started == [k \in Range(kinds) |-> Start(k, payload, config)]
    IN  /\ notificationTasks' = kinds
        /\ task' = [k \in TaskKinds |-> IF k \in Range(kinds) THEN started[k].st ELSE "none"]
        /\ skippedSend' = {k \in Range(kinds) : started[k].skip}
        /\ revalidation' = [k \in TaskKinds |->
               IF k \in Range(kinds) THEN Revalidated(k, payload) ELSE NotValidated]
        /\ adapterCalls' = [a \in Adapters |->
               adapterCalls[a] + Cardinality({k \in Range(kinds) : started[k].call = a})]
        /\ pc' = "join"

(***************************************************************************)
(* The three workflows, lines 1885-1997.                                   *)
(***************************************************************************)
\* whether a workflow goes on to build its tasks
MayDispatchAlways(result) == TRUE
MayDispatch(result) == result.valid

IrBranchIgnoresFlag ==
    /\ pc = "branch"
    /\ isIr
    /\ invoked' = invoked \cup {"validateIrCallData"}
    /\ callType' = "IR"
    /\ LET irValidation == validateIrCallData(payload)
       IN  /\ validation' = [validation EXCEPT !.ir = irValidation]
           /\ IF MayDispatch(irValidation)
                 \/ irValidation.missingFields = <<"confirmed security incident">>
              THEN Build(IrTasks(config.featureFlags)) /\ UNCHANGED response
              ELSE /\ Return(Skipped("IR call processing skipped - missing required data",
                                     irValidation.missingFields))
                   /\ UNCHANGED <<notificationTasks, task, skippedSend, adapterCalls, revalidation>>
    /\ UNCHANGED <<secretSet, signature, verifyResult, eventType, payload, config,
                   isIr, isNonIr, emailNotificationSent, alertAttempts>>
    /\ UNCHANGED ticketLocals
IrBranch ==
    /\ pc = "branch"
    /\ isIr
    /\ invoked' = invoked \cup {"validateIrCallData"}
    /\ callType' = "IR"
    /\ LET irValidation == validateIrCallData(payload)
       IN  /\ validation' = [validation EXCEPT !.ir = irValidation]
           /\ IF MayDispatch(irValidation)
              THEN Build(IrTasks(config.featureFlags)) /\ UNCHANGED response
              ELSE /\ Return(Skipped("IR call processing skipped - missing required data",
                                     irValidation.missingFields))
                   /\ UNCHANGED <<notificationTasks, task, skippedSend, adapterCalls, revalidation>>
    /\ UNCHANGED <<secretSet, signature, verifyResult, eventType, payload, config,
                   isIr, isNonIr, emailNotificationSent, alertAttempts>>
    /\ UNCHANGED ticketLocals

NonIrBranch ==
    /\ pc = "branch"
    /\ ~isIr
    /\ isNonIr
    /\ invoked' = invoked \cup {"validateNonIrCallData"}
    /\ callType' = "NON-IR"
    /\ LET nonIrValidation == validateNonIrCallData(payload)
       IN  /\ validation' = [validation EXCEPT !.nonIr = nonIrValidation]
           /\ IF MayDispatch(nonIrValidation)
              THEN Build(NonIrTasks(config.featureFlags)) /\ UNCHANGED response
              ELSE /\ Return(Skipped("Non-IR call processing skipped - missing required data",
                                     nonIrValidation.missingFields))
                   /\ UNCHANGED <<notificationTasks, task, skippedSend, adapterCalls, revalidation>>
    /\ UNCHANGED <<secretSet, signature, verifyResult, eventType, payload, config,
                   isIr, isNonIr, emailNotificationSent, alertAttempts>>
    /\ UNCHANGED ticketLocals

\* the unclassified call defaults to the IR workflow without a validation
UnclassifiedBranch ==
    /\ pc = "branch"
    /\ ~isIr
    /\ ~isNonIr
    /\ callType' = "UNCLASSIFIED (defaulting to IR)"
    /\ Build(IrTasks(config.featureFlags))
    /\ UNCHANGED <<secretSet, signature, invoked, verifyResult, eventType, payload, config,
                   isIr, isNonIr, emailNotificationSent, alertAttempts, response>>
    /\ UNCHANGED <<validation, ticketLocals>>

(***************************************************************************)
(* The continuations of the tasks.  They run while the handler is          *)
(* suspended in 'await Promise.allSettled(notificationTasks)'.             *)
(***************************************************************************)
Suspended == pc = "join"

HandlerUnchanged ==
    UNCHANGED <<pc, secretSet, signature, invoked, verifyResult, eventType, payload, config,
                isIr, isNonIr, notificationTasks, skippedSend, response, dispatchLocals>>

\* sendJiraFailureNotificationEmail is called: with the Azure provider the
\* EmailClient constructor (outside its try) throws on a bad connection
\* string; otherwise the provider send is awaited inside a try that swallows
\* every failure
AlertThrows(cfg) == cfg.emailProvider = "azure" /\ ~cfg.clientOk

\* setting.includes(',') ? setting.split(',').map(email => email.trim()) : [setting]
SplitRecipients(setting) ==
    IF \E i \in DOMAIN setting : setting[i] = ","
    THEN SelectSeq(setting, LAMBDA x : x # ",")
    ELSE setting

\* the recipients of the ticket-failure alert, lines 1211-1214
AlertRecipientsIrList(cfg) == SplitRecipients(cfg.toEmail)
AlertRecipients(cfg) == SplitRecipients(cfg.failureNotificationRecipients)

\* the alert is addressed when sendJiraFailureNotificationEmail is called
AlertAddressed ==
    alertTo' = IF alertAttempts' > alertAttempts THEN AlertRecipients(config) ELSE alertTo

\* the error the ticket task throws after an alert that threw alertError:
\* the try around the alert (lines 1388-1394, 1412-1417) drops alertError
SurfacedAlertError(ticketError, alertError) == alertError
Surfaced(ticketError, alertError) == ticketError

\* the catch block of createJiraTicketViaApi, lines 1407-1421, entered with
\* the caught error err, the flag sent, n alert attempts made so far and
\* their outcomes
JiraCatch(sent, n, err, outcomes) ==
    IF config.featureFlags.enableEmail /\ ~sent
    THEN /\ alertAttempts' = n + 1
         /\ IF AlertThrows(config)
            THEN /\ task' = [task EXCEPT !["jira"] = "rejected"]
                 /\ alertOutcomes' = outcomes \cup {"threw"}
                 /\ jiraError' = [original |-> err,
                                  rejectedWith |-> Surfaced(err, "alert failed")]
                 /\ UNCHANGED adapterCalls
            ELSE /\ task' = [task EXCEPT !["jira"] = "alertInCatch"]
                 /\ alertOutcomes' = outcomes
                 /\ jiraError' = [original |-> err, rejectedWith |-> "none"]
                 /\ adapterCalls' = [adapterCalls EXCEPT !["alertEmail"] = @ + 1]
    ELSE /\ alertAttempts' = n
         /\ task' = [task EXCEPT !["jira"] = "rejected"]
         /\ alertOutcomes' = outcomes
         /\ jiraError' = [original |-> err, rejectedWith |-> err]
         /\ UNCHANGED adapterCalls

\* 'await fetch(endpoint, ...)' settles: a response that is ok, a response
\* that is not ok, or a transport error
JiraFetchRetries ==
    /\ Suspended
    /\ task["jira"] = "fetch"
    /\ adapterCalls' = [adapterCalls EXCEPT !["jiraApi"] = @ + 1]
    /\ UNCHANGED <<task, emailNotificationSent, alertAttempts, ticketLocals>>
    /\ HandlerUnchanged
JiraFetchSettles ==
    /\ Suspended
    /\ task["jira"] = "fetch"
    /\ \E outcome \in {"ok", "notOk", "throws"} :
          CASE outcome = "ok" ->
                 /\ task' = [task EXCEPT !["jira"] = "json"]
                 /\ UNCHANGED <<alertAttempts, adapterCalls, alertOutcomes, jiraError>>
            [] outcome = "notOk" ->
                 /\ task' = [task EXCEPT !["jira"] = "text"]
                 /\ UNCHANGED <<alertAttempts, adapterCalls, alertOutcomes, jiraError>>
            [] outcome = "throws" ->
                 JiraCatch(emailNotificationSent, alertAttempts, "fetch failed", alertOutcomes)
    /\ AlertAddressed
    /\ UNCHANGED emailNotificationSent
    /\ HandlerUnchanged

\* 'await response.json()' settles
JiraJsonSettles ==
    /\ Suspended
    /\ task["jira"] = "json"
    /\ \/ /\ task' = [task EXCEPT !["jira"] = "fulfilled"]
          /\ UNCHANGED <<alertAttempts, adapterCalls, alertOutcomes, jiraError>>
       \/ JiraCatch(emailNotificationSent, alertAttempts, "response.json failed", alertOutcomes)
    /\ AlertAddressed
    /\ UNCHANGED emailNotificationSent
    /\ HandlerUnchanged

\* 'await response.text()' settles on the not-ok path, lines 1382-1397
JiraTextSettles ==
    /\ Suspended
    /\ task["jira"] = "text"
    /\ \/ \* the text is read: the alert is attempted inside the try
          IF config.featureFlags.enableEmail
          THEN IF AlertThrows(config)
               THEN \* caught at 1391, 'throw error' then enters the catch block
                    JiraCatch(emailNotificationSent, alertAttempts + 1,
                              "Jira API request failed", alertOutcomes \cup {"threw"})
               ELSE /\ alertAttempts' = alertAttempts + 1
                    /\ adapterCalls' = [adapterCalls EXCEPT !["alertEmail"] = @ + 1]
                    /\ task' = [task EXCEPT !["jira"] = "alertInTry"]
                    /\ jiraError' = [original |-> "Jira API request failed",
                                     rejectedWith |-> "none"]
                    /\ UNCHANGED alertOutcomes
          ELSE JiraCatch(emailNotificationSent, alertAttempts,
                         "Jira API request failed", alertOutcomes)
       \/ \* reading the text throws
          JiraCatch(emailNotificationSent, alertAttempts, "response.text failed", alertOutcomes)
    /\ AlertAddressed
    /\ UNCHANGED emailNotificationSent
    /\ HandlerUnchanged

\* the alert awaited at line 1389 returns (sent or not, its failures are
\* swallowed): emailNotificationSent = true; throw error; the catch block
JiraAlertInTrySettles ==
    /\ Suspended
    /\ task["jira"] = "alertInTry"
    /\ emailNotificationSent' = TRUE
    /\ \E outcome \in {"sent", "failed"} :
          JiraCatch(TRUE, alertAttempts, jiraError.original, alertOutcomes \cup {outcome})
    /\ AlertAddressed
    /\ HandlerUnchanged

\* the alert awaited at line 1413 returns (sent or not): throw error
JiraAlertInCatchSettles ==
    /\ Suspended
    /\ task["jira"] = "alertInCatch"
    /\ task' = [task EXCEPT !["jira"] = "rejected"]
    /\ \E outcome \in {"sent", "failed"} : alertOutcomes' = alertOutcomes \cup {outcome}
    /\ jiraError' = [jiraError EXCEPT !.rejectedWith = jiraError.original]
    /\ UNCHANGED <<emailNotificationSent, alertAttempts, adapterCalls, alertTo>>
    /\ HandlerUnchanged

\* where an awaited provider call of the other tasks can lead
ContinuationsSmsHangs(st) ==
    CASE st = "send" -> {"fulfilled", "rejected"}
      [] st = "beginSend" -> {"poll", "rejected"}
      [] st = "poll" -> {"fulfilled", "rejected"}
      [] st = "post" -> {"fulfilled", "rejected"}
      [] OTHER -> {}
Continuations(st) ==
    CASE st = "send" -> {"fulfilled", "rejected"}        \* await sgMail.send(msg)
      [] st = "beginSend" -> {"poll", "rejected"}        \* await emailClient.beginSend(message)
      [] st = "poll" -> {"fulfilled", "rejected"}        \* await poller.pollUntilDone(), status check
      [] st = "post" -> {"fulfilled", "rejected"}        \* await fetch(webhookUrl), response.ok
      [] st = "create" -> {"fulfilled", "rejected"}      \* await client.messages.create(...)
      [] OTHER -> {}

Continue(kind) ==
    /\ Suspended
    /\ \E st \in Continuations(task[kind]) : task' = [task EXCEPT ![kind] = st]
    /\ UNCHANGED <<emailNotificationSent, alertAttempts, adapterCalls, ticketLocals>>
    /\ HandlerUnchanged

EmailContinues == Continue("email")
NonIrEmailContinues == Continue("nonIrEmail")
TeamsContinues == Continue("teams")
SmsContinues == Continue("sms")

(***************************************************************************)
(* The join and the response, lines 1999-2047.                             *)
(***************************************************************************)
CountOnce(kinds, st) == IF \E i \in DOMAIN kinds : task[kinds[i]] = st THEN 1 ELSE 0
Count(kinds, st) == Cardinality({i \in DOMAIN kinds : task[kinds[i]] = st})

\* Promise.all: resumes when one task has rejected or all have fulfilled
JoinFailFast(kinds) ==
    \/ \E i \in DOMAIN kinds : task[kinds[i]] = "rejected"
    \/ \A i \in DOMAIN kinds : task[kinds[i]] = "fulfilled"

\* Promise.allSettled: resumes when every task has settled
JoinReady(kinds) == \A i \in DOMAIN kinds : task[kinds[i]] \in Settled

\* notificationStatus, lines 2026-2030
NotificationStatusAllOrNothing(kinds) ==
    [total |-> Len(kinds),
     successful |-> IF Count(kinds, "rejected") > 0 THEN 0 ELSE Count(kinds, "fulfilled"),
     failed |-> Count(kinds, "rejected")]
NotificationStatus(kinds) ==
    [total |-> Len(kinds),
     successful |-> Count(kinds, "fulfilled"),
     failed |-> Count(kinds, "rejected")]

\* notifications_attempted, lines 2039-2044
NotificationsAttempted(ir, nonIr, ff) ==
    [jira |-> ir /\ ff.enableJira,
     email |-> (ir /\ ff.enableEmail) \/ nonIr,
     teams |-> ir /\ ff.enableTeams,
     sms |-> ir /\ ff.enableSms]

Respond ==
    /\ pc = "join"
    /\ JoinReady(notificationTasks)
    /\ Return(Response(200, TRUE, "Webhook processed successfully", <<>>,
                       NotificationsAttempted(isIr, isNonIr, config.featureFlags),
                       NotificationStatus(notificationTasks)))
    /\ UNCHANGED <<secretSet, signature, invoked, verifyResult, eventType, payload, config,
                   isIr, isNonIr, notificationTasks, task, skippedSend,
                   emailNotificationSent, alertAttempts, adapterCalls>>
    /\ UNCHANGED <<dispatchLocals, ticketLocals>>

Next ==
    \/ Receive
    \/ CheckSecret
    \/ CheckSignature
    \/ ReadBody
    \/ Verify
    \/ ParseBody
    \/ FilterEvent
    \/ ExtractCall
    \/ LoadConfig
    \/ Classify
    \/ IrBranch
    \/ NonIrBranch
    \/ UnclassifiedBranch
    \/ JiraFetchSettles
    \/ JiraJsonSettles
    \/ JiraTextSettles
    \/ JiraAlertInTrySettles
    \/ JiraAlertInCatchSettles
    \/ EmailContinues
    \/ NonIrEmailContinues
    \/ TeamsContinues
    \/ SmsContinues
    \/ Respond

Spec == Init /\ [][Next]_vars


(***************************************************************************)
(* The classifier and the validators on their own: a second specification  *)
(* that starts where the handler holds a call and a configuration, draws   *)
(* the call from a wider set of analyses (a flag that is the string        *)
(* "true", empty and padded texts, the placeholder in both cases, both     *)
(* shapes at once), applies both validators to it, and then runs the       *)
(* handler's own classification and workflow steps.                        *)
(***************************************************************************)
TxtEmpty == <<>>
TxtTrue == <<"t", "r", "u", "e">>

PureAnalyses == [is_security_incident : FlagValues \cup {Str(TxtTrue)},
                 IR_call_description : IrDescriptionValues \cup {Str(TxtEmpty)},
                 non_IR_inquiry_reason : InquiryValues \cup {Str(TxtBlank)},
                 non_IR_call_description : InquiryValues,
                 caller_name : NameValues \cup {Str(TxtEmpty)},
                 company_name : CompanyValues \cup {Str(TxtBlank)},
                 caller_phone_number : PhoneValues \cup {Str(NotProvided)},
                 caller_email_address : MailValues]

\* the analysis the other shape carries when a payload has both shapes
FullIncident == [is_security_incident |-> Bool(TRUE),
                 IR_call_description |-> Str(TxtBreach),
                 non_IR_inquiry_reason |-> Undef,
                 non_IR_call_description |-> Undef,
                 caller_name |-> Str(TxtJane),
                 company_name |-> Str(TxtAcme),
                 caller_phone_number |-> Str(TxtPhone),
                 caller_email_address |-> Str(TxtMail)]

PurePayloads ==
    {[analysis |-> Obj(a), custom_analysis_data |-> NoObject] : a \in PureAnalyses}
    \cup {[analysis |-> NoObject, custom_analysis_data |-> Obj(a)] : a \in PureAnalyses}
    \cup {[analysis |-> Obj(a), custom_analysis_data |-> Obj(FullIncident)] : a \in PureAnalyses}
    \cup {[analysis |-> NoObject, custom_analysis_data |-> NoObject]}

\* every channel enabled and configured, or none
PureEnvironments ==
    {env \in Environments :
        /\ env.emailProvider = "sendgrid"
        /\ env.complete = EnabledChannels(env)
        /\ EnabledChannels(env) \in {{}, Channels}}

InitPure ==
    /\ pc = "validators"
    /\ secretSet = TRUE
    /\ signature = "present"
    /\ invoked = {"request.text", "Retell.verify", "JSON.parse", "eventFilter",
                  "webhookPayload.call", "loadConfiguration"}
    /\ verifyResult = "true"
    /\ eventType = "call_analyzed"
    /\ config \in {loadConfiguration(env) : env \in PureEnvironments}
    /\ payload \in PurePayloads
    /\ isIr = FALSE
    /\ isNonIr = FALSE
    /\ notificationTasks = <<>>
    /\ task = [k \in TaskKinds |-> "none"]
    /\ skippedSend = {}
    /\ emailNotificationSent = FALSE
    /\ alertAttempts = 0
    /\ adapterCalls = [a \in Adapters |-> 0]
    /\ response = NoResponse
    /\ callType = "unknown"
    /\ validation = NoValidation
    /\ alertTo = <<>>
    /\ alertOutcomes = {}
    /\ jiraError = NoJiraError
    /\ revalidation = [k \in TaskKinds |-> NotValidated]

\* validateIrCallData(payload) and validateNonIrCallData(payload), each
\* applied to the call whatever its classification
ApplyValidators ==
    /\ pc = "validators"
    /\ validation' = [ir |-> validateIrCallData(payload),
                      nonIr |-> validateNonIrCallData(payload)]
    /\ pc' = "classify"
    /\ UNCHANGED <<secretSet, signature, invoked, verifyResult, eventType, payload, config,
                   isIr, isNonIr, notificationTasks, task, skippedSend,
                   emailNotificationSent, alertAttempts, adapterCalls, response,
                   callType, revalidation, ticketLocals>>

NextPure ==
    \/ ApplyValidators
    \/ Classify
    \/ IrBranch
    \/ NonIrBranch
    \/ UnclassifiedBranch

SpecPure == InitPure /\ [][NextPure]_vars

(***************************************************************************)
(* The handler under fairness, for what it eventually does.  The calls are *)
(* one of each kind the workflows tell apart: a complete Incident in       *)
(* either shape, an Incident by its text alone, an Inquiry with and        *)
(* without a caller name, a call with no analysis fields, a call with no   *)
(* analysis at all.                                                        *)
(***************************************************************************)
LiveAnalyses ==
    {FullIncident,
     [EmptyAnalysis EXCEPT !.IR_call_description = Str(TxtBreach)],
     [EmptyAnalysis EXCEPT !.non_IR_inquiry_reason = Str(TxtQuestion),
                           !.caller_name = Str(TxtJane),
                           !.caller_email_address = Str(TxtMail)],
     [EmptyAnalysis EXCEPT !.non_IR_inquiry_reason = Str(TxtQuestion)],
     EmptyAnalysis}

LivePayloads ==
    {[analysis |-> Obj(a), custom_analysis_data |-> NoObject] : a \in LiveAnalyses}
    \cup {[analysis |-> NoObject, custom_analysis_data |-> Obj(FullIncident)],
          [analysis |-> NoObject, custom_analysis_data |-> NoObject]}

NextLive ==
    \/ Receive
    \/ CheckSecret
    \/ CheckSignature
    \/ ReadBody
    \/ Verify
    \/ ParseBody
    \/ FilterEvent
    \/ ExtractCallFrom(LivePayloads)
    \/ LoadConfig
    \/ Classify
    \/ IrBranch
    \/ NonIrBranch
    \/ UnclassifiedBranch
    \/ JiraFetchSettles
    \/ JiraJsonSettles
    \/ JiraTextSettles
    \/ JiraAlertInTrySettles
    \/ JiraAlertInCatchSettles
    \/ EmailContinues
    \/ NonIrEmailContinues
    \/ TeamsContinues
    \/ SmsContinues
    \/ Respond

\* the handler runs on one thread to its return, and every awaited provider
\* call and alert send settles: a step that can be taken is taken
SpecLive == Init /\ [][NextLive]_vars /\ WF_vars(NextLive)

(***************************************************************************)
(* Properties.                                                             *)
(***************************************************************************)
NoAdapterCalled == \A a \in Adapters : adapterCalls[a] = 0
NoTaskBuilt == notificationTasks = <<>> /\ \A k \in TaskKinds : task[k] = "none"

\* the steps that follow the signature check
AfterVerification == {"JSON.parse", "eventFilter", "webhookPayload.call", "loadConfiguration",
                      "isIrCall", "isNonIrCall", "validateIrCallData", "validateNonIrCallData"}
\* the steps that follow the event filter
AfterFilter == AfterVerification \ {"JSON.parse", "eventFilter"}

Classified == "isIrCall" \in invoked /\ "isNonIrCall" \in invoked
Incident == Classified /\ isIr
Inquiry == Classified /\ ~isIr /\ isNonIr
Unclassified == Classified /\ ~isIr /\ ~isNonIr
BranchTaken == Classified /\ pc \in {"join", "done"}

\* C1: a request whose signature does not verify is rejected with status 401,
\* and the JSON parse and every later step (event filter, classification,
\* validation, configuration load, channel calls) happen only after
\* Retell.verify has returned true on the raw body read with request.text().
C1_ParseOnlyAfterVerify ==
    /\ verifyResult = "false" =>
          /\ pc = "done"
          /\ response = InvalidSignature
          /\ response.status = 401
    /\ (invoked \cap AfterVerification # {} \/ ~NoTaskBuilt \/ ~NoAdapterCalled) =>
          /\ verifyResult = "true"
          /\ {"request.text", "Retell.verify"} \subseteq invoked

C1_Witness ==
    /\ pc = "done"
    /\ signature = "present"
    /\ verifyResult = "false"
    /\ response.status = 401

\* C2: with the secret set and the signature header absent the handler
\* rejects with status 400 without reading or parsing the body, and no
\* classifier, validator, configuration load or channel adapter runs.
C2_MissingSignatureFailsClosed ==
    (secretSet /\ signature = "absent") =>
        /\ pc \in {"checkSecret", "checkSignature", "done"}
        /\ pc = "done" => response = MissingSignature /\ response.status = 400
        /\ invoked = {}
        /\ verifyResult = "none"
        /\ NoTaskBuilt
        /\ NoAdapterCalled

C2_Witness ==
    /\ pc = "done"
    /\ secretSet
    /\ signature = "absent"
    /\ response.status = 400

\* C3: with the secret unset every request, with or without a signature
\* header, gets the status 500 server-misconfiguration error before the body
\* is read or parsed and before any classification or channel call; that
\* response differs from the 400 and the 401 rejections.
C3_MissingSecretIsServerError ==
    (signature # "unread" /\ ~secretSet) =>
        /\ pc \in {"checkSecret", "done"}
        /\ pc = "done" =>
              /\ response = ServerConfigurationError
              /\ response.status = 500
              /\ response # MissingSignature
              /\ response # InvalidSignature
        /\ invoked = {}
        /\ verifyResult = "none"
        /\ NoTaskBuilt
        /\ NoAdapterCalled

C3_Witness ==
    /\ pc = "done"
    /\ ~secretSet
    /\ signature = "present"
    /\ response.status = 500

\* C4: a verified request whose event kind is not call_analyzed gets the
\* successful 'acknowledged but not processed' result (status 200, success
\* true) and runs neither classifier, validator, loadConfiguration nor any
\* channel adapter.
C4_OtherEventsAcknowledged ==
    (verifyResult = "true" /\ eventType \in Events \ {"call_analyzed"}) =>
        /\ pc \in {"filter", "done"}
        /\ pc = "done" =>
              /\ response = Acknowledged
              /\ response.status = 200
              /\ response.success
        /\ invoked \cap AfterFilter = {}
        /\ NoTaskBuilt
        /\ NoAdapterCalled

C4_Witness ==
    /\ pc = "done"
    /\ verifyResult = "true"
    /\ eventType = "call_started"
    /\ response.status = 200
    /\ response.success

\* C5: an Incident or Inquiry event whose validation is not valid returns at
\* once the 'skipped - missing required data' result with the validator's
\* missingFields, with status 200, no task constructed and no adapter called.
C5_InvalidDataSkipsDispatch ==
    /\ (BranchTaken /\ isIr /\ ~validateIrCallData(payload).valid) =>
          /\ pc = "done"
          /\ response.status = 200
          /\ response.message = "IR call processing skipped - missing required data"
          /\ response.missingFields = validateIrCallData(payload).missingFields
          /\ response.missingFields # <<>>
          /\ NoTaskBuilt
          /\ NoAdapterCalled
    /\ (BranchTaken /\ ~isIr /\ isNonIr /\ ~validateNonIrCallData(payload).valid) =>
          /\ pc = "done"
          /\ response.status = 200
          /\ response.message = "Non-IR call processing skipped - missing required data"
          /\ response.missingFields = validateNonIrCallData(payload).missingFields
          /\ response.missingFields # <<>>
          /\ NoTaskBuilt
          /\ NoAdapterCalled

\* Scenario B: an Incident payload that lacks only the phone number
C5_Witness ==
    /\ pc = "done"
    /\ Incident
    /\ AnalysisOf(payload).caller_phone_number = Undef
    /\ response.missingFields = <<"phone number">>
    /\ response.status = 200

\* C6: an Unclassified event is validated with the Incident policy before
\* dispatch: when that validation fails no channel adapter is called and the
\* result is the 'skipped' outcome with the missing-field list.
C6_UnclassifiedValidatedAsIncident ==
    (BranchTaken /\ Unclassified /\ ~validateIrCallData(payload).valid) =>
        /\ NoAdapterCalled
        /\ pc = "done" =>
              /\ response.message = "IR call processing skipped - missing required data"
              /\ response.missingFields = validateIrCallData(payload).missingFields

\* C7: for an Inquiry event, under every combination of the enable flags, no
\* ticket, chat, SMS, incident-email or ticket-failure-alert call is made;
\* the only task that can be constructed is the inquiry email.
C7_InquiryOnlyInquiryEmail ==
    (BranchTaken /\ Inquiry) =>
        /\ Range(notificationTasks) \subseteq {"nonIrEmail"}
        /\ \A k \in TaskKinds \ {"nonIrEmail"} : task[k] = "none"
        /\ \A a \in Adapters \ {"nonIrEmail"} : adapterCalls[a] = 0
        /\ alertAttempts = 0

C7_Witness ==
    /\ Inquiry
    /\ config.featureFlags = [enableEmail |-> TRUE, enableTeams |-> TRUE,
                              enableSms |-> TRUE, enableJira |-> TRUE]
    /\ notificationTasks = <<"nonIrEmail">>
    /\ adapterCalls["nonIrEmail"] = 1
    /\ pc = "done"

\* the enable flag that governs a task
FlagOf(kind, ff) ==
    CASE kind = "jira" -> ff.enableJira
      [] kind = "teams" -> ff.enableTeams
      [] kind = "sms" -> ff.enableSms
      [] kind \in {"email", "nonIrEmail"} -> ff.enableEmail

\* C8: a task is constructed only if the enable flag of its channel is true:
\* no ticket task without enableJira, no chat task without enableTeams, no SMS
\* task without enableSms, no incident or inquiry email task without enableEmail.
C8_NoTaskForDisabledChannel ==
    \A k \in TaskKinds : task[k] # "none" => FlagOf(k, config.featureFlags)

AdapterOf(kind) ==
    CASE kind = "jira" -> "jiraApi"
      [] kind = "email" -> "irEmail"
      [] kind = "teams" -> "teamsWebhook"
      [] kind = "sms" -> "twilioSms"
      [] kind = "nonIrEmail" -> "nonIrEmail"

\* C10: the tasks run concurrently: whenever the handler is suspended in the
\* join, every constructed task that has not settled has already made its
\* provider call, so a pending task never keeps a sibling from being started.
C10_AllStartedBeforeJoin ==
    pc = "join" =>
        \A i \in DOMAIN notificationTasks :
            LET k == notificationTasks[i]
            IN  /\ task[k] # "none"
                /\ task[k] \notin Settled => adapterCalls[AdapterOf(k)] >= 1

\* the last task pushed has settled while the first is still waiting for its
\* provider
C10_Witness ==
    /\ pc = "join"
    /\ notificationTasks = <<"jira", "email", "teams", "sms">>
    /\ task["jira"] = "fetch"
    /\ task["email"] \in {"send", "beginSend"}
    /\ task["teams"] = "post"
    /\ task["sms"] = "fulfilled"

(***************************************************************************)
(* The ticket task and its failure alert.                                  *)
(***************************************************************************)
\* C11: whenever the ticket task has failed and the email channel is
\* enabled, sendJiraFailureNotificationEmail has already been called by the
\* time the task rejects (so before the join returns and the response is
\* built), and the alert went to the failure-notification recipients, not to
\* the recipients of the incident email.
C11_TicketFailureAlerted ==
    (task["jira"] = "rejected" /\ config.featureFlags.enableEmail) =>
        /\ alertAttempts >= 1
        /\ alertTo = <<"csirt@procircular.com", "jsherlock@procircular.com">>
        /\ alertTo # <<"IRT@procircular.com">>

\* the ticket request came back not ok, the alert was sent, and the handler
\* is still waiting in the join
C11_Witness ==
    /\ pc = "join"
    /\ task["jira"] = "rejected"
    /\ config.featureFlags.enableEmail
    /\ jiraError.original = "Jira API request failed"
    /\ alertOutcomes = {"sent"}
    /\ adapterCalls["alertEmail"] = 1

\* C12: when the ticket task has failed and an attempt of its alert failed
\* or threw, the task still rejects with the error of the ticket creation
\* (never with the alert's), the response counts it among the failed tasks,
\* and the alert is no task of its own: total is the number of constructed
\* channel tasks.
C12_TicketErrorSurvivesAlertFailure ==
    (task["jira"] = "rejected" /\ alertOutcomes \cap {"failed", "threw"} # {}) =>
        /\ jiraError.original \notin {"none", "alert failed"}
        /\ jiraError.rejectedWith = jiraError.original
        /\ pc = "done" =>
              LET results == response.notification_results
              IN  /\ results.failed = Cardinality({k \in TaskKinds : task[k] = "rejected"})
                  /\ results.failed >= 1
                  /\ results.total = Cardinality({k \in TaskKinds : task[k] # "none"})
                  /\ results.total = results.successful + results.failed

\* the ticket request came back not ok, the alert threw inside the try and
\* again inside the catch block, and the response has been returned
C12_Witness ==
    /\ pc = "done"
    /\ task["jira"] = "rejected"
    /\ jiraError.original = "Jira API request failed"
    /\ alertOutcomes = {"threw"}
    /\ alertAttempts = 2
    /\ response.notification_results.failed >= 1
    /\ response.notification_results.successful >= 1

(***************************************************************************)
(* The outcome of a dispatch.                                              *)
(***************************************************************************)
\* a workflow got past its validation and built its tasks
Dispatched ==
    /\ BranchTaken
    /\ Incident => validation.ir.valid
    /\ Inquiry => validation.nonIr.valid

C14_TotalIsSuccessfulPlusFailed ==
    (Dispatched /\ pc = "done") =>
        LET results == response.notification_results
        IN  /\ results.total = results.successful + results.failed
            /\ results.total = Len(notificationTasks)
            /\ results.total = Cardinality({k \in TaskKinds : task[k] # "none"})
            /\ results.successful = Cardinality({k \in TaskKinds : task[k] = "fulfilled"})
            /\ results.failed = Cardinality({k \in TaskKinds : task[k] = "rejected"})

\* three tasks were built, two succeeded and one failed
C14_Witness ==
    /\ pc = "done"
    /\ Dispatched
    /\ response.notification_results = [total |-> 3, successful |-> 2, failed |-> 1]

(***************************************************************************)
(* Classification.                                                         *)
(***************************************************************************)
\* C15: a call whose is_security_incident is exactly true is classified as
\* an Incident (isIrCall true, isNonIrCall false) and the handler takes the
\* IR workflow, whatever the other fields hold: with or without incident
\* text, with or without inquiry reason or inquiry description.
C15_FlagForcesIncident ==
    (Classified /\ AnalysisOf(payload).is_security_incident = Bool(TRUE)) =>
        /\ isIr
        /\ ~isNonIr
        /\ pc \in {"join", "done"} => callType = "IR"

\* flag true, no incident text, inquiry reason and description present: the
\* IR workflow has run
C15_Witness ==
    /\ pc \in {"join", "done"}
    /\ callType = "IR"
    /\ AnalysisOf(payload).is_security_incident = Bool(TRUE)
    /\ AnalysisOf(payload).IR_call_description = Undef
    /\ AnalysisOf(payload).non_IR_inquiry_reason = Str(TxtQuestion)
    /\ AnalysisOf(payload).non_IR_call_description = Str(TxtQuestion)

\* a text field that holds something besides white space
NonBlank(v) == v.t = "str" /\ \E i \in DOMAIN v.v : v.v[i] \notin WhiteSpace

\* the classification the specification's algorithm gives for an analysis
Classification(a) ==
    LET hasIncidentText == NonBlank(a.IR_call_description)
        isFlaggedIncident == a.is_security_incident = Bool(TRUE)
        hasInquiryText == NonBlank(a.non_IR_inquiry_reason)
                          \/ NonBlank(a.non_IR_call_description)
    IN  IF hasIncidentText \/ isFlaggedIncident THEN "Incident"
        ELSE IF hasInquiryText /\ ~isFlaggedIncident THEN "Inquiry"
        ELSE "Unclassified"

\* the workflow the handler has entered
PathTaken ==
    CASE callType = "IR" -> "Incident"
      [] callType = "NON-IR" -> "Inquiry"
      [] callType = "UNCLASSIFIED (defaulting to IR)" -> "Unclassified"
      [] OTHER -> "none"

\* C16: the workflow the handler enters is the one the specified classify
\* function gives for the call's flag, incident text and inquiry text, and
\* is one of Incident, Inquiry, Unclassified; empty and whitespace-only
\* texts count as absent, incident text wins over inquiry text, and the two
\* classifier results agree with it as soon as they are computed.
C16_PathIsSpecifiedClassification ==
    LET expected == Classification(AnalysisOf(payload))
    IN  /\ Classified =>
              /\ isIr <=> expected = "Incident"
              /\ (~isIr /\ isNonIr) <=> expected = "Inquiry"
              /\ (~isIr /\ ~isNonIr) <=> expected = "Unclassified"
        /\ (Classified /\ pc \in {"join", "done"}) =>
              /\ PathTaken \in {"Incident", "Inquiry", "Unclassified"}
              /\ PathTaken = expected

\* a whitespace-only incident text and a whitespace-only inquiry reason but
\* an inquiry description: the Inquiry workflow has run
C16_Witness ==
    /\ pc \in {"join", "done"}
    /\ callType = "NON-IR"
    /\ AnalysisOf(payload).is_security_incident = Bool(FALSE)
    /\ AnalysisOf(payload).IR_call_description = Str(TxtBlank)
    /\ AnalysisOf(payload).non_IR_inquiry_reason = Str(TxtBlank)
    /\ AnalysisOf(payload).non_IR_call_description = Str(TxtQuestion)

(***************************************************************************)
(* Validation.                                                             *)
(***************************************************************************)
\* the same letter, whatever its case
SameLetter(c, d) ==
    \/ c = d
    \/ \E pair \in {<<"N", "n">>, <<"O", "o">>, <<"T", "t">>, <<"P", "p">>, <<"R", "r">>,
                    <<"V", "v">>, <<"I", "i">>, <<"D", "d">>, <<"E", "e">>} :
          {c, d} = {pair[1], pair[2]}

\* the text s is the placeholder 'not provided' in some mix of cases, with
\* white space around it or not
IsPlaceholder(s) ==
    \E lead \in 0..Len(s) :
        /\ \A i \in 1..lead : s[i] \in WhiteSpace
        /\ Len(s) >= lead + 12
        /\ \A i \in 1..12 : SameLetter(s[lead + i], NotProvided[i])
        /\ \A i \in (lead + 13)..Len(s) : s[i] \in WhiteSpace

\* a text requirement is unmet: the field is absent, empty, whitespace-only
\* or the placeholder
Unmet(v) == ~NonBlank(v) \/ IsPlaceholder(v.v)

\* the requirements of the Incident path in their fixed order, and the
\* description missingFields gives of each
IrRequirements(a) ==
    << [unmet |-> a.is_security_incident # Bool(TRUE), field |-> "confirmed security incident"],
       [unmet |-> Unmet(a.caller_name), field |-> "caller first and last name"],
       [unmet |-> Unmet(a.company_name), field |-> "company name"],
       [unmet |-> Unmet(a.caller_phone_number), field |-> "phone number"] >>

\* the descriptions of the unmet requirements, in the order of reqs
RECURSIVE UnmetFields(_)
UnmetFields(reqs) ==
    IF reqs = <<>> THEN <<>>
    ELSE (IF Head(reqs).unmet THEN <<Head(reqs).field>> ELSE <<>>) \o UnmetFields(Tail(reqs))

\* C17: the missingFields validateIrCallData returns are exactly the unmet
\* requirements among flag, caller name, company name, phone number, in that
\* order; the flag is unmet unless it is exactly true, a text is unmet when
\* absent, empty, whitespace-only or (trimmed, in any case) 'not provided';
\* valid is true exactly when the list is empty.
C17_IrMissingFieldsInFixedOrder ==
    validation.ir # NotValidated =>
        /\ validation.ir.missingFields = UnmetFields(IrRequirements(AnalysisOf(payload)))
        /\ validation.ir.valid <=> validation.ir.missingFields = <<>>

\* the flag is the string 'true', the name a padded placeholder in mixed
\* case, the company white space, the phone a number: three fields reported
C17_Witness ==
    /\ AnalysisOf(payload).is_security_incident = Str(TxtTrue)
    /\ AnalysisOf(payload).caller_name = Str(TxtPlaceholder)
    /\ AnalysisOf(payload).company_name = Str(TxtBlank)
    /\ AnalysisOf(payload).caller_phone_number = Str(TxtPhone)
    /\ validation.ir = [valid |-> FALSE,
                        missingFields |-> <<"confirmed security incident",
                                            "caller first and last name", "company name">>]

\* the payload with the company name replaced
WithCompany(p, company) ==
    [analysis |-> Obj([AnalysisOf(p) EXCEPT !.company_name = company]),
     custom_analysis_data |-> NoObject]

\* C18: validateNonIrCallData is valid exactly when the flag is not true,
\* the caller name is present and the phone number or the email address is
\* present; the company name never changes its result; an Inquiry with a
\* name and an email but no phone passes and has exactly one task built, the
\* inquiry email.
C18_InquiryNeedsNameAndOneContact ==
    LET a == AnalysisOf(payload)
    IN  /\ validation.nonIr # NotValidated =>
              /\ validation.nonIr.valid <=>
                    /\ a.is_security_incident # Bool(TRUE)
                    /\ ~Unmet(a.caller_name)
                    /\ ~Unmet(a.caller_phone_number) \/ ~Unmet(a.caller_email_address)
              /\ \A company \in {Undef, Str(TxtBlank), Str(TxtPlaceholder), Str(TxtAcme)} :
                    validateNonIrCallData(WithCompany(payload, company)) = validation.nonIr
        /\ (/\ Inquiry
            /\ pc \in {"join", "done"}
            /\ ~Unmet(a.caller_name)
            /\ ~Unmet(a.caller_email_address)
            /\ Unmet(a.caller_phone_number)) =>
              /\ validation.nonIr.valid
              /\ notificationTasks = <<"nonIrEmail">>
              /\ \A k \in TaskKinds : task[k] # "none" <=> k = "nonIrEmail"

\* an Inquiry with a name and an email, no phone and no company: the inquiry
\* email is the one task built
C18_Witness ==
    /\ Inquiry
    /\ pc \in {"join", "done"}
    /\ AnalysisOf(payload).caller_name = Str(TxtJane)
    /\ AnalysisOf(payload).caller_email_address = Str(TxtMail)
    /\ AnalysisOf(payload).caller_phone_number = Undef
    /\ AnalysisOf(payload).company_name = Undef
    /\ validation.nonIr.valid
    /\ notificationTasks = <<"nonIrEmail">>

(***************************************************************************)
(* The tasks of the Incident workflow, and the two payload shapes.         *)
(***************************************************************************)
\* the enable flag of each channel of the Incident workflow
ChannelFlag == [jira |-> "enableJira", email |-> "enableEmail",
                teams |-> "enableTeams", sms |-> "enableSms"]

\* C19: for an Incident that passed validation the constructed tasks are
\* exactly the channels among ticket, incident email, chat and SMS whose
\* flag is true, one task each, so their number is the number of enabled
\* flags: four when all are enabled, none when none is.
C19_IncidentTasksAreEnabledChannels ==
    (Incident /\ Dispatched) =>
        LET ff == config.featureFlags
            enabled == {c \in Channels : ff[ChannelFlag[c]]}
        IN  /\ Range(notificationTasks) = enabled
            /\ Len(notificationTasks) = Cardinality(enabled)
            /\ Len(notificationTasks) =
                  Cardinality({f \in {"enableJira", "enableEmail", "enableTeams", "enableSms"} : ff[f]})
            /\ \A k \in TaskKinds : task[k] # "none" <=> k \in enabled
            /\ (enabled = Channels) => Len(notificationTasks) = 4
            /\ (enabled = {}) => notificationTasks = <<>>

\* a valid Incident with every channel enabled has been answered: four
\* tasks were built
C19_Witness ==
    /\ pc = "done"
    /\ Incident
    /\ Dispatched
    /\ \A c \in Channels : config.featureFlags[ChannelFlag[c]]
    /\ response.notification_results.total = 4

\* the payload that carries the analysis a in the flat shape only
Flat(a) == [analysis |-> Obj(a), custom_analysis_data |-> NoObject]

\* what classification and validation give for a payload
Verdict(ir, nonIr, irValidation, nonIrValidation) ==
    [isIr |-> ir, isNonIr |-> nonIr, ir |-> irValidation, nonIr |-> nonIrValidation]

\* C20: a payload that carries its analysis only in the nested shape gets
\* the classification and the ValidationResults of the payload that carries
\* the same analysis in the flat shape; when both shapes are present the
\* classifiers and the validators all use the flat one.
C20_FirstPresentShapeWins ==
    (Classified /\ validation.ir # NotValidated /\ validation.nonIr # NotValidated) =>
        LET verdict == Verdict(isIr, isNonIr, validation.ir, validation.nonIr)
            OfFlat(a) == Verdict(isIrCall(Flat(a)), isNonIrCall(Flat(a)),
                                 validateIrCallData(Flat(a)), validateNonIrCallData(Flat(a)))
        IN  /\ (payload.analysis.t = "undef" /\ payload.custom_analysis_data.t = "obj") =>
                  verdict = OfFlat(payload.custom_analysis_data.v)
            /\ (payload.analysis.t = "obj" /\ payload.custom_analysis_data.t = "obj") =>
                  /\ verdict = OfFlat(payload.analysis.v)
                  /\ verdict.ir.missingFields = UnmetFields(IrRequirements(payload.analysis.v))
                  /\ (verdict.isIr <=> Classification(payload.analysis.v) = "Incident")

\* both shapes present: the flat one is an Inquiry without a company, the
\* nested one a complete Incident; the Inquiry workflow has run
C20_Witness ==
    /\ pc \in {"join", "done"}
    /\ payload.analysis.t = "obj"
    /\ payload.custom_analysis_data = Obj(FullIncident)
    /\ payload.analysis.v.is_security_incident = Undef
    /\ payload.analysis.v.company_name = Undef
    /\ callType = "NON-IR"
    /\ validation.nonIr.valid
    /\ ~validation.ir.valid

ChannelAdapters == {"jiraApi", "irEmail", "nonIrEmail", "teamsWebhook", "twilioSms"}

\* C22: there are no retries: within one invocation the provider of each
\* channel (ticket API, incident email, inquiry email, chat webhook, SMS) is
\* called at most once, also after its call has failed.
C22_NoRetries ==
    \A a \in ChannelAdapters : adapterCalls[a] <= 1

\* the ticket request failed in transport and the chat webhook call failed:
\* the response has been returned and each provider was called once
C22_Witness ==
    /\ pc = "done"
    /\ task["jira"] = "rejected"
    /\ jiraError.original = "fetch failed"
    /\ task["teams"] = "rejected"
    /\ adapterCalls["jiraApi"] = 1
    /\ adapterCalls["teamsWebhook"] = 1

\* C23: a failure after the signature has verified and before the call is
\* classified (a body that is not JSON, an analyzed event without a call
\* object, a configuration that does not load) is answered with status 500
\* and success false, never with the success response of a dispatch, and no
\* task is built and no provider called for it.
C23_UnexpectedFailureIsRequestFailure ==
    (pc = "done" /\ verifyResult = "true" /\ ~Classified /\ response # Acknowledged) =>
        /\ response.status = 500
        /\ ~response.success
        /\ response.message # "Webhook processed successfully"
        /\ response.notification_results = NoResults
        /\ NoTaskBuilt
        /\ NoAdapterCalled

\* an analyzed event whose call object is missing: the handler failed before
\* it loaded the configuration
C23_Witness ==
    /\ pc = "done"
    /\ verifyResult = "true"
    /\ eventType = "call_analyzed"
    /\ "webhookPayload.call" \in invoked
    /\ "loadConfiguration" \notin invoked
    /\ response.status = 500
    /\ NoAdapterCalled

\* the stage of the invocation: 1 Received, 2 Verified, 3 Filtered,
\* 4 Classified, 6 Dispatched (5, Validated, is passed inside the step of the
\* workflow), 7 Completed
StageRank ==
    CASE pc \in {"start", "checkSecret", "checkSignature", "readBody", "verify"} -> 1
      [] pc \in {"parse", "filter"} -> 2
      [] pc \in {"extract", "loadConfig", "classify"} -> 3
      [] pc = "branch" -> 4
      [] pc = "join" -> 6
      [] pc = "done" -> 7

\* what holds at each stage of an invocation that has not returned
StagesReached ==
    /\ pc = "done" <=> response # NoResponse
    /\ (pc # "done" /\ StageRank >= 2) => verifyResult = "true"
    /\ (pc # "done" /\ StageRank >= 3) => eventType = "call_analyzed"
    /\ (pc # "done" /\ StageRank >= 4) => Classified
    /\ (pc = "join" /\ Incident) => validation.ir.valid
    /\ (pc = "join" /\ Inquiry) => validation.nonIr.valid

\* a step never goes back to an earlier stage, and the response, once
\* returned, is never replaced
StagesForward ==
    /\ StageRank' >= StageRank
    /\ response # NoResponse => response' = response

C26_ShapeNeverKeepsTaskFromAdapter ==
    (Incident /\ Dispatched) =>
        /\ task["jira"] # "none" => adapterCalls["jiraApi"] >= 1
        /\ (task["email"] # "none" /\ ~(config.emailProvider = "azure" /\ ~config.clientOk)) =>
              adapterCalls["irEmail"] >= 1
        /\ task["teams"] # "none" => adapterCalls["teamsWebhook"] >= 1
        /\ task["sms"] # "none" => adapterCalls["twilioSms"] >= 1

(***************************************************************************)
(* The configuration.                                                      *)
(***************************************************************************)
\* C27: the configuration is checked as a whole before any task is built:
\* when loadConfiguration has run without returning a configuration the
\* handler has answered 500 and no task was built and no provider called; a
\* configuration that was returned has the settings of every enabled
\* channel, and tasks exist only under such a configuration; an event that
\* is not call_analyzed is acknowledged with 200 before the configuration is
\* read at all.
C27_ConfigurationCheckedAsAWhole ==
    /\ ("loadConfiguration" \in invoked /\ ~config.loaded) =>
          /\ pc = "done"
          /\ response.status = 500
          /\ ~response.success
          /\ NoTaskBuilt
          /\ NoAdapterCalled
    /\ config.loaded =>
          \A c \in Channels : config.featureFlags[ChannelFlag[c]] => c \in config.complete
    /\ ~NoTaskBuilt => config.loaded
    /\ response = Acknowledged =>
          /\ response.status = 200
          /\ "loadConfiguration" \notin invoked

\* a call with an analysis arrived and the configuration did not load
C27_Witness ==
    /\ pc = "done"
    /\ payload.analysis.t = "obj"
    /\ "loadConfiguration" \in invoked
    /\ ~config.loaded
    /\ response.status = 500
    /\ NoAdapterCalled

(***************************************************************************)
(* Incidents known by their text alone.                                    *)
(***************************************************************************)
\* C28: an event that is an Incident by its incident text alone, with
\* is_security_incident absent or false, never reaches dispatch: whatever
\* its other fields and the channel flags, the handler returns the skipped
\* result that names the flag first, builds no task and calls no provider;
\* so every Incident that is dispatched has the flag exactly true.
C28_TextOnlyIncidentNeverDispatched ==
    /\ (Incident /\ pc \in {"join", "done"}
          /\ AnalysisOf(payload).is_security_incident # Bool(TRUE)) =>
          /\ pc = "done"
          /\ response.status = 200
          /\ ~response.success
          /\ response.message = "IR call processing skipped - missing required data"
          /\ response.missingFields # <<>>
          /\ Head(response.missingFields) = "confirmed security incident"
          /\ NoTaskBuilt
          /\ NoAdapterCalled
    /\ (Incident /\ (pc = "join" \/ ~NoTaskBuilt)) =>
          AnalysisOf(payload).is_security_incident = Bool(TRUE)

\* incident text, flag false, every other field present and every channel
\* enabled: skipped for the flag alone
C28_Witness ==
    /\ pc = "done"
    /\ Incident
    /\ AnalysisOf(payload).is_security_incident = Bool(FALSE)
    /\ AnalysisOf(payload).IR_call_description = Str(TxtBreach)
    /\ \A c \in Channels : config.featureFlags[ChannelFlag[c]]
    /\ response.missingFields = <<"confirmed security incident">>
    /\ NoAdapterCalled

(***************************************************************************)
(* What the success response reports, and how often the alert is tried.    *)
(***************************************************************************)
\* C29: in every success response notifications_attempted says true for a
\* channel exactly when a task of that channel was built in this dispatch
\* (for email: the incident email or the inquiry email), for every
\* classification and every combination of flags; the flags are never all
\* false while notification_results.total is positive.
C29_AttemptedMeansTaskBuilt ==
    (pc = "done" /\ BranchTaken /\ response.status = 200 /\ response.success) =>
        LET attempted == response.notifications_attempted
        IN  /\ attempted.jira <=> task["jira"] # "none"
            /\ attempted.email <=> (task["email"] # "none" \/ task["nonIrEmail"] # "none")
            /\ attempted.teams <=> task["teams"] # "none"
            /\ attempted.sms <=> task["sms"] # "none"
            /\ response.notification_results.total > 0 =>
                  (attempted.jira \/ attempted.email \/ attempted.teams \/ attempted.sms)

====
